---- MODULE Spec2Model ----
(***************************************************************************)
(* Model of package safe (write.go): WriteFile / WriteFilePerm, ReadFile   *)
(* RemoveFile and their helpers write, safelink, link and remove, over a    *)
(* directory with hard links.  Every OS call (os.Create, Chmod, Write,     *)
(* Sync, os.Remove, os.Link, ioutil.ReadFile) is one atomic step; calls of *)
(* different WriteFile / ReadFile / RemoveFile invocations interleave      *)
(* freely.                                                                 *)
(***************************************************************************)
EXTENDS Integers, Sequences, FiniteSets, TLC

\* ------------------------------------------------------------- bounds
MaxCalls == 3       \* WriteFile calls issued one after another
NumWriters == 2     \* WriteFile calls that may run concurrently
MaxLen == 2         \* longest payload, in bytes
MaxRemoves == 2     \* RemoveFile calls issued one after another

\* ---------------------------------------------------------- constants
\* (mutation: one round fewer)
Rounds_fewer == 3 - 1
Rounds == 3         \* for i := 0; i < 3; i++
DefaultPerm == 384  \* 0600

Max(a, b) == IF a > b THEN a ELSE b

Calls == 1 .. Max(MaxCalls, NumWriters)
Writers == 1 .. NumWriters
Readers == {1}
Removers == 1 .. MaxRemoves

\* the data arguments: byte strings of every length up to MaxLen
Payloads == UNION {[1 .. n -> {0}] : n \in 0 .. MaxLen}
\* the data of concurrent calls, told apart by their content
DataOf(w) == <<w>>
OldData == <<0>>

\* ------------------------------------------------------------- names
name == "name"
AltNamePostfix == ".1"
alt == "name.1"                       \* alt := name + AltNamePostfix
\* name + t.Format(TimestampFormat): the call's time stamp makes the name
\* (time stamps of distinct calls are distinct)
TimestampFormat(t) ==
    <<"name.t1", "name.t2", "name.t3", "name.t4", "name.t5", "name.t6">>[t]
\* (mutation: the data is written to name itself, not to a temporary file)
tmp_inplace(w) == name
tmp(w) == TimestampFormat(w)
Names == {name, alt} \cup {tmp(w) : w \in Calls}

\* ------------------------------------------------------------- files
\* A directory entry refers to a file (an inode) or is absent.  The file a
\* call creates has the call's number; the files present at the start have
\* negative numbers.
Absent == 0
OldFiles == {-1, -2}
Files == Calls \cup OldFiles
Blank == [data |-> <<>>, mode |-> 0, synced |-> FALSE]

VARIABLES
    dir,      \* Names -> Files \cup {Absent}: the directory
    file,     \* Files -> [data, mode, synced]: the files' contents
    wpc,      \* Calls -> the OS call a WriteFilePerm invocation is at
    wk,       \* Calls -> which of safelink's three link calls (0: none)
    wdata,    \* Calls -> the data argument
    wf,       \* Calls -> the file f refers to (Absent: nil or closed)
    werr,     \* Calls -> the error the call returns ("nil": none)
    wpre,     \* Calls -> what name and alt were when it started (alone)
    wbefore,  \* Calls -> the calls that had returned when it started
    wfail,    \* Calls -> the OS call whose error it returns ("": none)
    last2,    \* the call whose os.Link(tmpname, altname) made the link last
    final3,   \* the call whose third link call ran last, after the third
              \* link call of every other call had ended (0: they overlap)
    winst,    \* Calls -> the file altname referred to when the call's
              \* os.Link(tmpname, altname) returned (Absent: not yet)
    rpc,      \* Readers -> the read a ReadFile invocation is at
    ri,       \* Readers -> the loop counter i
    rres,     \* Readers -> the (data, err) it returned, with the file read
    rafter,   \* Readers -> the calls that had returned nil when it started
    rover,    \* Readers -> the calls that ran while it ran
    rlog,     \* Readers -> the reads it made so far: name read and error
    xpc,      \* Removers -> the os.Remove a RemoveFile invocation is at
    xerr,     \* Removers -> the error it returns ("nil": none)
    xlog      \* Removers -> its os.Remove calls so far: name and error

wvars == <<wpc, wk, wdata, wf, werr, wpre, wbefore, wfail, last2, final3, winst>>
rvars == <<rpc, ri, rres, rafter, rover, rlog>>
xvars == <<xpc, xerr, xlog>>
vars == <<dir, file, wpc, wk, wdata, wf, werr, wpre, wbefore, wfail,
          last2, final3, winst,
          rpc, ri, rres, rafter, rover, rlog,
          xpc, xerr, xlog>>

Active(w) == wpc[w] \notin {"idle", "returned", "crashed"}
Started == {w \in Calls : wpc[w] # "idle"}
Returned == {w \in Calls : wpc[w] = "returned"}
ReturnedNil == {w \in Returned : werr[w] = "nil"}
Reading(r) == rpc[r] \in {"name", "alt"}

\* the content reachable under a name (none: the empty string)
DataAt(d, fl, n) == IF d[n] = Absent THEN <<>> ELSE fl[d[n]].data
Content(n) == DataAt(dir, file, n)
Exists(n) == dir[n] # Absent

\* ------------------------------------------------------- the OS calls
IsNotExist(e) == e = "ENOENT"
IsExist(e) == e = "EEXIST"

\* os.Remove(n): unlink a directory entry
os_Remove_err(d, n) == IF d[n] = Absent THEN "ENOENT" ELSE "nil"
\* (mutation: the entry is not unlinked)
os_Remove_kept(d, n) == d
os_Remove(d, n) == [d EXCEPT ![n] = Absent]

\* os.Link(old, new): a second directory entry for the file of old
os_Link_err(d, old, new) ==
    IF d[old] = Absent THEN "ENOENT"
    ELSE IF d[new] # Absent THEN "EEXIST"
    ELSE "nil"
os_Link(d, old, new) ==
    IF os_Link_err(d, old, new) = "nil" THEN [d EXCEPT ![new] = d[old]] ELSE d

\* a file with no directory entry and no open descriptor is gone
Release(d, fl, fds) ==
    [i \in Files |->
        IF (\E n \in Names : d[n] = i) \/ (\E w \in Calls : fds[w] = i)
        THEN fl[i] ELSE Blank]

\* ioutil.ReadFile(n): the whole content of the file, or NotExist
ioutil_ReadFile(d, fl, n) ==
    IF d[n] = Absent
    THEN [data |-> <<>>, err |-> "ENOENT", file |-> Absent]
    ELSE [data |-> fl[d[n]].data, err |-> "nil", file |-> d[n]]

\* ------------------------------------------------------- WriteFilePerm
\* (mutation: the last link call links altname again, never name)
safelink_nofinal(tmpname, altname, nm) ==
    << <<altname, nm>>, <<tmpname, altname>>, <<tmpname, altname>> >>
\* (mutation: the temporary file is never linked to altname)
safelink_noinstall(tmpname, altname, nm) ==
    << <<altname, nm>>, <<altname, nm>>, <<altname, nm>> >>
\* (mutation: the last link call has its arguments swapped)
safelink_swapped(tmpname, altname, nm) ==
    << <<altname, nm>>, <<tmpname, altname>>, <<nm, altname>> >>
\* the three link(oldname, newname) calls of safelink, in order
safelink(tmpname, altname, nm) ==
    << <<altname, nm>>, <<tmpname, altname>>, <<altname, nm>> >>
oldname(w) == safelink(tmp(w), alt, name)[wk[w]][1]
newname(w) == safelink(tmp(w), alt, name)[wk[w]][2]

\* (mutation: only NotExist is ignored)
LinkIgnores_notexist(e) == IsNotExist(e)
\* link ignores these results of os.Link
LinkIgnores(e) == IsNotExist(e) \/ IsExist(e)

\* t := time.Now(); tmp := ...; alt := ...; then write(tmp, perm, data)
Start(w, d) ==
    /\ wpc[w] = "idle"
    /\ \A v \in Calls : v < w => wpc[v] # "idle"
    /\ wpc' = [wpc EXCEPT ![w] = "Create"]
    /\ wdata' = [wdata EXCEPT ![w] = d]
    /\ wbefore' = [wbefore EXCEPT ![w] = Returned]
    /\ rover' = [r \in Readers |->
                   IF Reading(r) THEN rover[r] \cup {w} ELSE rover[r]]
    /\ UNCHANGED <<dir, file, wk, wf, werr, wfail, last2, final3, winst,
                   rpc, ri, rres, rafter, rlog>>
    /\ UNCHANGED xvars

\* f, err := os.Create(name): a new file, or the existing one truncated
Create(w) ==
    /\ wpc[w] = "Create"
    /\ LET i == IF dir[tmp(w)] = Absent THEN w ELSE dir[tmp(w)]
       IN /\ dir' = [dir EXCEPT ![tmp(w)] = i]
          /\ file' = [file EXCEPT ![i] =
                        IF dir[tmp(w)] = Absent
                        THEN [data |-> <<>>, mode |-> 438, synced |-> FALSE]
                        ELSE [file[i] EXCEPT !.data = <<>>, !.synced = FALSE]]
          /\ wf' = [wf EXCEPT ![w] = i]
    /\ wpc' = [wpc EXCEPT ![w] = "Chmod"]
    /\ UNCHANGED <<wk, wdata, werr, wpre, wbefore, wfail, last2, final3, winst>>
    /\ UNCHANGED rvars
    /\ UNCHANGED xvars

\* f.Chmod(mode)
Chmod(w) ==
    /\ wpc[w] = "Chmod"
    /\ file' = [file EXCEPT ![wf[w]].mode = DefaultPerm]
    /\ wpc' = [wpc EXCEPT ![w] = "Write"]
    /\ UNCHANGED <<dir, wk, wdata, wf, werr, wpre, wbefore, wfail, last2, final3, winst>>
    /\ UNCHANGED rvars
    /\ UNCHANGED xvars

\* (mutation: a short write goes unnoticed)
Write_short(w) ==
    /\ wpc[w] = "Write"
    /\ file' = [file EXCEPT ![wf[w]].data = SubSeq(wdata[w], 1, Len(wdata[w]) - 1)]
    /\ wpc' = [wpc EXCEPT ![w] = "Sync"]
    /\ UNCHANGED <<dir, wk, wdata, wf, werr, wpre, wbefore, wfail, last2, final3, winst>>
    /\ UNCHANGED rvars
    /\ UNCHANGED xvars

\* f.Write(data)
Write(w) ==
    /\ wpc[w] = "Write"
    /\ file' = [file EXCEPT ![wf[w]].data = wdata[w]]
    /\ wpc' = [wpc EXCEPT ![w] = "Sync"]
    /\ UNCHANGED <<dir, wk, wdata, wf, werr, wpre, wbefore, wfail, last2, final3, winst>>
    /\ UNCHANGED rvars
    /\ UNCHANGED xvars

\* return f.Sync(), the deferred f.Close(), and in WriteFilePerm the
\* err check: on nil, safelink begins with its first link call
Sync(w) ==
    /\ wpc[w] = "Sync"
    /\ file' = [file EXCEPT ![wf[w]].synced = TRUE]
    /\ wf' = [wf EXCEPT ![w] = Absent]
    /\ wpc' = [wpc EXCEPT ![w] = "Remove"]
    /\ wk' = [wk EXCEPT ![w] = 1]
    /\ UNCHANGED <<dir, wdata, werr, wpre, wbefore, wfail, last2, final3, winst>>
    /\ UNCHANGED rvars
    /\ UNCHANGED xvars

\* link: err := os.Remove(newname); NotExist is ignored
LinkRemove(w) ==
    /\ wpc[w] = "Remove"
    /\ dir' = os_Remove(dir, newname(w))
    /\ file' = Release(dir', file, wf)
    /\ wpc' = [wpc EXCEPT ![w] = "Link"]
    /\ final3' = IF wk[w] # 3 THEN final3
                 ELSE IF \A v \in Started \ {w} : wpc[v] \in {"defer", "returned"}
                      THEN w ELSE 0
    /\ UNCHANGED <<wk, wdata, wf, werr, wpre, wbefore, wfail, last2, winst>>
    /\ UNCHANGED rvars
    /\ UNCHANGED xvars

\* link: err = os.Link(oldname, newname); nil, or an ignored error: the
\* next link call of safelink, or its return nil after the third.
\* Any other error is returned through safelink and WriteFilePerm.
LinkLink(w) ==
    /\ wpc[w] = "Link"
    /\ dir' = os_Link(dir, oldname(w), newname(w))
    /\ LET e == os_Link_err(dir, oldname(w), newname(w))
           ok == e = "nil" \/ LinkIgnores(e)
       IN /\ wpc' = [wpc EXCEPT ![w] =
                       IF ok /\ wk[w] < 3 THEN "Remove" ELSE "defer"]
          /\ wk' = [wk EXCEPT ![w] = IF ok /\ wk[w] < 3 THEN wk[w] + 1 ELSE 0]
          /\ werr' = IF ok THEN werr ELSE [werr EXCEPT ![w] = e]
          /\ wfail' = IF ok THEN wfail ELSE [wfail EXCEPT ![w] = "Link"]
          /\ last2' = IF wk[w] = 2 /\ e = "nil" THEN w ELSE last2
          /\ winst' = IF wk[w] = 2 THEN [winst EXCEPT ![w] = dir'[alt]] ELSE winst
    /\ UNCHANGED <<file, wdata, wf, wpre, wbefore, final3>>
    /\ UNCHANGED rvars
    /\ UNCHANGED xvars

\* defer os.Remove(tmp), its result dropped; WriteFilePerm returns
DeferRemove(w) ==
    /\ wpc[w] = "defer"
    /\ dir' = os_Remove(dir, tmp(w))
    /\ file' = Release(dir', file, wf)
    /\ wpc' = [wpc EXCEPT ![w] = "returned"]
    /\ UNCHANGED <<wk, wdata, wf, werr, wpre, wbefore, wfail, last2, final3, winst>>
    /\ UNCHANGED rvars
    /\ UNCHANGED xvars

\* ------------------------------------------------- failing OS calls
\* os.Create fails (a missing directory: NotExist): f is nil, write
\* returns the error, WriteFilePerm returns it after the deferred remove
CreateFail(w, e) ==
    /\ wpc[w] = "Create"
    /\ wpc' = [wpc EXCEPT ![w] = "defer"]
    /\ wfail' = [wfail EXCEPT ![w] = "Create"]
    /\ werr' = [werr EXCEPT ![w] = e]
    /\ UNCHANGED <<dir, file, wk, wdata, wf, wpre, wbefore, last2, final3, winst>>
    /\ UNCHANGED rvars
    /\ UNCHANGED xvars

\* f.Chmod fails: write returns the error and closes f
ChmodFail(w) ==
    /\ wpc[w] = "Chmod"
    /\ wpc' = [wpc EXCEPT ![w] = "defer"]
    /\ wfail' = [wfail EXCEPT ![w] = "Chmod"]
    /\ werr' = [werr EXCEPT ![w] = "EIO"]
    /\ wf' = [wf EXCEPT ![w] = Absent]
    /\ UNCHANGED <<dir, file, wk, wdata, wpre, wbefore, last2, final3, winst>>
    /\ UNCHANGED rvars
    /\ UNCHANGED xvars

\* (mutation: the removal is deferred only after the err check)
WriteFail_nodefer(w, n) ==
    /\ wpc[w] = "Write"
    /\ n \in {0} \cup (0 .. Len(wdata[w]) - 1)
    /\ file' = [file EXCEPT ![wf[w]].data = SubSeq(wdata[w], 1, n)]
    /\ wpc' = [wpc EXCEPT ![w] = "returned"]
    /\ wfail' = [wfail EXCEPT ![w] = "Write"]
    /\ werr' = [werr EXCEPT ![w] = "EIO"]
    /\ wf' = [wf EXCEPT ![w] = Absent]
    /\ UNCHANGED <<dir, wk, wdata, wpre, wbefore, last2, final3, winst>>
    /\ UNCHANGED rvars
    /\ UNCHANGED xvars

\* f.Write fails after n bytes
WriteFail(w, n) ==
    /\ wpc[w] = "Write"
    /\ n \in {0} \cup (0 .. Len(wdata[w]) - 1)
    /\ file' = [file EXCEPT ![wf[w]].data = SubSeq(wdata[w], 1, n)]
    /\ wpc' = [wpc EXCEPT ![w] = "defer"]
    /\ wfail' = [wfail EXCEPT ![w] = "Write"]
    /\ werr' = [werr EXCEPT ![w] = "EIO"]
    /\ wf' = [wf EXCEPT ![w] = Absent]
    /\ UNCHANGED <<dir, wk, wdata, wpre, wbefore, last2, final3, winst>>
    /\ UNCHANGED rvars
    /\ UNCHANGED xvars

\* (mutation: WriteFilePerm goes on to safelink whatever write returned)
SyncFail_unchecked(w) ==
    /\ wpc[w] = "Sync"
    /\ wpc' = [wpc EXCEPT ![w] = "Remove"]
    /\ wk' = [wk EXCEPT ![w] = 1]
    /\ wfail' = [wfail EXCEPT ![w] = "Sync"]
    /\ werr' = [werr EXCEPT ![w] = "EIO"]
    /\ wf' = [wf EXCEPT ![w] = Absent]
    /\ UNCHANGED <<dir, file, wdata, wpre, wbefore, last2, final3, winst>>
    /\ UNCHANGED rvars
    /\ UNCHANGED xvars

\* f.Sync fails
SyncFail(w) ==
    /\ wpc[w] = "Sync"
    /\ wpc' = [wpc EXCEPT ![w] = "defer"]
    /\ wfail' = [wfail EXCEPT ![w] = "Sync"]
    /\ werr' = [werr EXCEPT ![w] = "EIO"]
    /\ wf' = [wf EXCEPT ![w] = Absent]
    /\ UNCHANGED <<dir, file, wk, wdata, wpre, wbefore, last2, final3, winst>>
    /\ UNCHANGED rvars
    /\ UNCHANGED xvars

\* link: os.Remove(newname) fails with an error that is not NotExist:
\* link returns it before os.Link, safelink and WriteFilePerm return it
LinkRemoveFail(w) ==
    /\ wpc[w] = "Remove"
    /\ wpc' = [wpc EXCEPT ![w] = "defer"]
    /\ wk' = [wk EXCEPT ![w] = 0]
    /\ wfail' = [wfail EXCEPT ![w] = "Remove"]
    /\ werr' = [werr EXCEPT ![w] = "EIO"]
    /\ UNCHANGED <<dir, file, wdata, wf, wpre, wbefore, last2, final3, winst>>
    /\ UNCHANGED rvars
    /\ UNCHANGED xvars

\* link: os.Link fails with an error that is neither NotExist nor Exist
LinkLinkFail(w) ==
    /\ wpc[w] = "Link"
    /\ wpc' = [wpc EXCEPT ![w] = "defer"]
    /\ wk' = [wk EXCEPT ![w] = 0]
    /\ wfail' = [wfail EXCEPT ![w] = "Link"]
    /\ werr' = [werr EXCEPT ![w] = "EIO"]
    /\ UNCHANGED <<dir, file, wdata, wf, wpre, wbefore, last2, final3, winst>>
    /\ UNCHANGED rvars
    /\ UNCHANGED xvars

\* the process stops for good after any OS call; nothing deferred runs
Crash(w) ==
    /\ Active(w)
    /\ wpc' = [wpc EXCEPT ![w] = "crashed"]
    /\ wf' = [wf EXCEPT ![w] = Absent]
    /\ file' = Release(dir, file, wf')
    /\ UNCHANGED <<dir, wk, wdata, werr, wpre, wbefore, wfail, last2, final3, winst>>
    /\ UNCHANGED rvars
    /\ UNCHANGED xvars

\* ------------------------------------------------------------ ReadFile
ReadStart(r) ==
    /\ rpc[r] = "idle"
    /\ rpc' = [rpc EXCEPT ![r] = "name"]
    /\ ri' = [ri EXCEPT ![r] = 0]
    /\ rafter' = [rafter EXCEPT ![r] = ReturnedNil]
    /\ rover' = [rover EXCEPT ![r] = {w \in Calls : Active(w)}]
    /\ rlog' = [rlog EXCEPT ![r] = <<>>]
    /\ UNCHANGED <<dir, file, rres>>
    /\ UNCHANGED wvars
    /\ UNCHANGED xvars

\* (mutation: name is not read, the round begins with name.1)
ReadName_skipped(r) ==
    /\ rpc[r] = "name"
    /\ rpc' = [rpc EXCEPT ![r] = "alt"]
    /\ UNCHANGED <<dir, file, ri, rres, rafter, rover, rlog>>
    /\ UNCHANGED wvars
    /\ UNCHANGED xvars

\* data, err = ioutil.ReadFile(name); if !os.IsNotExist(err) return
ReadName(r) ==
    /\ rpc[r] = "name"
    /\ LET res == ioutil_ReadFile(dir, file, name)
       IN IF ~IsNotExist(res.err)
          THEN rpc' = [rpc EXCEPT ![r] = "returned"] /\ rres' = [rres EXCEPT ![r] = res]
          ELSE rpc' = [rpc EXCEPT ![r] = "alt"] /\ rres' = rres
    /\ rlog' = [rlog EXCEPT ![r] =
                  Append(@, <<name, ioutil_ReadFile(dir, file, name).err>>)]
    /\ UNCHANGED <<dir, file, ri, rafter, rover>>
    /\ UNCHANGED wvars
    /\ UNCHANGED xvars

\* data, err = ioutil.ReadFile(alt); if !os.IsNotExist(err) return;
\* i++, and after the third round return data, err
ReadAlt(r) ==
    /\ rpc[r] = "alt"
    /\ LET res == ioutil_ReadFile(dir, file, alt)
       IN IF ~IsNotExist(res.err) \/ ri[r] + 1 >= Rounds
          THEN rpc' = [rpc EXCEPT ![r] = "returned"] /\ rres' = [rres EXCEPT ![r] = res]
          ELSE rpc' = [rpc EXCEPT ![r] = "name"] /\ rres' = rres
    /\ ri' = [ri EXCEPT ![r] = ri[r] + 1]
    /\ rlog' = [rlog EXCEPT ![r] =
                  Append(@, <<alt, ioutil_ReadFile(dir, file, alt).err>>)]
    /\ UNCHANGED <<dir, file, rafter, rover>>
    /\ UNCHANGED wvars
    /\ UNCHANGED xvars

\* (mutation: any error of reading name makes ReadFile go on to name.1)
ReadNameFail_retried(r) ==
    /\ rpc[r] = "name"
    /\ rpc' = [rpc EXCEPT ![r] = "alt"]
    /\ rlog' = [rlog EXCEPT ![r] = Append(@, <<name, "EIO">>)]
    /\ UNCHANGED <<dir, file, ri, rres, rafter, rover>>
    /\ UNCHANGED wvars
    /\ UNCHANGED xvars

\* ioutil.ReadFile(name) fails with an error that is not NotExist (name is
\* a directory, permission is denied): ReadFile returns it
ReadNameFail(r) ==
    /\ rpc[r] = "name"
    /\ rpc' = [rpc EXCEPT ![r] = "returned"]
    /\ rres' = [rres EXCEPT ![r] = [data |-> <<>>, err |-> "EIO", file |-> Absent]]
    /\ rlog' = [rlog EXCEPT ![r] = Append(@, <<name, "EIO">>)]
    /\ UNCHANGED <<dir, file, ri, rafter, rover>>
    /\ UNCHANGED wvars
    /\ UNCHANGED xvars

\* ioutil.ReadFile(alt) fails with an error that is not NotExist
ReadAltFail(r) ==
    /\ rpc[r] = "alt"
    /\ rpc' = [rpc EXCEPT ![r] = "returned"]
    /\ rres' = [rres EXCEPT ![r] = [data |-> <<>>, err |-> "EIO", file |-> Absent]]
    /\ rlog' = [rlog EXCEPT ![r] = Append(@, <<alt, "EIO">>)]
    /\ UNCHANGED <<dir, file, ri, rafter, rover>>
    /\ UNCHANGED wvars
    /\ UNCHANGED xvars

\* ---------------------------------------------------------- RemoveFile
Removing(x) == xpc[x] \in {"name", "alt"}

\* (mutation: remove reports NotExist like any other error)
remove_strict(e) == e
\* remove: what it returns for the result of os.Remove; NotExist is ignored
remove(e) == IF IsNotExist(e) THEN "nil" ELSE e

\* alt := name + AltNamePostfix
RemoveStart(x) ==
    /\ xpc[x] = "idle"
    /\ \A y \in Removers : y < x => xpc[y] = "returned"
    /\ xpc' = [xpc EXCEPT ![x] = "name"]
    /\ xlog' = [xlog EXCEPT ![x] = <<>>]
    /\ UNCHANGED <<dir, file, xerr>>
    /\ UNCHANGED wvars
    /\ UNCHANGED rvars

\* if err := remove(name); err != nil { return err }
RemoveName(x) ==
    /\ xpc[x] = "name"
    /\ dir' = os_Remove(dir, name)
    /\ file' = Release(dir', file, wf)
    /\ LET e == remove(os_Remove_err(dir, name))
       IN /\ xpc' = [xpc EXCEPT ![x] = IF e = "nil" THEN "alt" ELSE "returned"]
          /\ xerr' = [xerr EXCEPT ![x] = e]
    /\ xlog' = [xlog EXCEPT ![x] = Append(@, <<name, os_Remove_err(dir, name)>>)]
    /\ UNCHANGED wvars
    /\ UNCHANGED rvars

\* return remove(alt)
RemoveAlt(x) ==
    /\ xpc[x] = "alt"
    /\ dir' = os_Remove(dir, alt)
    /\ file' = Release(dir', file, wf)
    /\ xpc' = [xpc EXCEPT ![x] = "returned"]
    /\ xerr' = [xerr EXCEPT ![x] =
                  IF @ = "nil" THEN remove(os_Remove_err(dir, alt)) ELSE @]
    /\ xlog' = [xlog EXCEPT ![x] = Append(@, <<alt, os_Remove_err(dir, alt)>>)]
    /\ UNCHANGED wvars
    /\ UNCHANGED rvars

\* (mutation: the error of name is kept and name.1 is removed all the same)
RemoveNameFail_goeson(x) ==
    /\ xpc[x] = "name"
    /\ xpc' = [xpc EXCEPT ![x] = "alt"]
    /\ xerr' = [xerr EXCEPT ![x] = "EISDIR"]
    /\ xlog' = [xlog EXCEPT ![x] = Append(@, <<name, "EISDIR">>)]
    /\ UNCHANGED <<dir, file>>
    /\ UNCHANGED wvars
    /\ UNCHANGED rvars

\* os.Remove(name) fails with an error that is not NotExist (name is a
\* directory that is not empty): RemoveFile returns it
RemoveNameFail(x) ==
    /\ xpc[x] = "name"
    /\ xpc' = [xpc EXCEPT ![x] = "returned"]
    /\ xerr' = [xerr EXCEPT ![x] = "EISDIR"]
    /\ xlog' = [xlog EXCEPT ![x] = Append(@, <<name, "EISDIR">>)]
    /\ UNCHANGED <<dir, file>>
    /\ UNCHANGED wvars
    /\ UNCHANGED rvars

\* os.Remove(alt) fails with an error that is not NotExist
RemoveAltFail(x) ==
    /\ xpc[x] = "alt"
    /\ xpc' = [xpc EXCEPT ![x] = "returned"]
    /\ xerr' = [xerr EXCEPT ![x] = "EISDIR"]
    /\ xlog' = [xlog EXCEPT ![x] = Append(@, <<alt, "EISDIR">>)]
    /\ UNCHANGED <<dir, file>>
    /\ UNCHANGED wvars
    /\ UNCHANGED rvars

\* ------------------------------------------------------ initial states
NoCall ==
    /\ wpc = [w \in Calls |-> "idle"]
    /\ wk = [w \in Calls |-> 0]
    /\ wdata = [w \in Calls |-> <<>>]
    /\ wf = [w \in Calls |-> Absent]
    /\ werr = [w \in Calls |-> "nil"]
    /\ wfail = [w \in Calls |-> ""]
    /\ wpre = [w \in Calls |->
                 [name |-> Absent, alt |-> Absent, ndata |-> <<>>, adata |-> <<>>]]
    /\ wbefore = [w \in Calls |-> {}]
    /\ last2 = 0
    /\ final3 = 0
    /\ winst = [w \in Calls |-> Absent]
    /\ rpc = [r \in Readers |-> "idle"]
    /\ ri = [r \in Readers |-> 0]
    /\ rres = [r \in Readers |-> [data |-> <<>>, err |-> "nil", file |-> Absent]]
    /\ rafter = [r \in Readers |-> {}]
    /\ rover = [r \in Readers |-> {}]
    /\ rlog = [r \in Readers |-> <<>>]
    /\ xpc = [x \in Removers |-> "idle"]
    /\ xerr = [x \in Removers |-> "nil"]
    /\ xlog = [x \in Removers |-> <<>>]

OldFile(d) == [data |-> d, mode |-> DefaultPerm, synced |-> TRUE]

\* the directory a successful WriteFile(name, d) leaves
Published(d) ==
    /\ dir = [n \in Names |-> IF n \in {name, alt} THEN -1 ELSE Absent]
    /\ file = [i \in Files |-> IF i = -1 THEN OldFile(d) ELSE Blank]

\* neither name exists yet
Fresh ==
    /\ dir = [n \in Names |-> Absent]
    /\ file = [i \in Files |-> Blank]

\* name and name.1 each absent, or a file of any content; one file under
\* both names, or two files
AnyFiles ==
    \E n \in {Absent, -1}, a \in {Absent, -1, -2}, dn \in Payloads, da \in Payloads :
        /\ a = -2 => n = -1
        /\ n = Absent => dn = <<>>
        /\ a = Absent => da = <<>>
        /\ (n # Absent /\ a = n) => da = dn
        /\ (n = Absent /\ a # Absent) => a = -1
        /\ dir = [m \in Names |-> IF m = name THEN n ELSE IF m = alt THEN a ELSE Absent]
        /\ file = [i \in Files |->
                     IF i = n /\ n # Absent THEN OldFile(dn)
                     ELSE IF i = a /\ a # Absent THEN OldFile(da)
                     ELSE Blank]

\* ------------------------------------------------------ specifications
\* a call starts when no other call is running: what name and name.1
\* were before the call is then well defined, and recorded
StartSeq(w, d) ==
    /\ \A v \in Calls : ~Active(v)
    /\ Start(w, d)
    /\ wpre' = [wpre EXCEPT ![w] =
                  [name |-> dir[name], alt |-> dir[alt],
                   ndata |-> Content(name), adata |-> Content(alt)]]

\* a call starts whatever else is running
StartConc(w, d) ==
    /\ Start(w, d)
    /\ UNCHANGED wpre

\* a call starts when nothing else is running
StartAlone(w, d) ==
    /\ \A r \in Readers : ~Reading(r)
    /\ StartSeq(w, d)

\* a ReadFile that runs when no call is running
ReadStartAlone(r) ==
    /\ \A v \in Calls : ~Active(v)
    /\ ReadStart(r)

\* the OS calls of a WriteFilePerm that all succeed
Steps(w) ==
    \/ Create(w)
    \/ Chmod(w)
    \/ Write(w)
    \/ Sync(w)
    \/ LinkRemove(w)
    \/ LinkLink(w)
    \/ DeferRemove(w)

\* the OS calls of a WriteFilePerm that fail
Fails(w) ==
    \/ \E e \in {"ENOENT", "EIO"} : CreateFail(w, e)
    \/ ChmodFail(w)
    \/ \E n \in 0 .. MaxLen : WriteFail(w, n)
    \/ SyncFail(w)
    \/ LinkRemoveFail(w)
    \/ LinkLinkFail(w)

Reads(r) == ReadName(r) \/ ReadAlt(r)

\* one writer, one call after another, from a published file
InitSeq == NoCall /\ \E d \in Payloads : Published(d)
NextSeq == \E w \in 1 .. MaxCalls : (\E d \in Payloads : StartSeq(w, d)) \/ Steps(w)
SpecSeq == InitSeq /\ [][NextSeq]_vars

\* one writer, one call after another, any of which may crash
InitCrash == NoCall /\ Fresh
NextCrash ==
    \E w \in 1 .. MaxCalls : StartSeq(w, DataOf(w)) \/ Steps(w) \/ Crash(w)
SpecCrash == InitCrash /\ [][NextCrash]_vars

\* concurrent calls and a concurrent ReadFile, from a published file
InitConc == NoCall /\ Published(OldData)
NextConc ==
    \/ \E w \in Writers : StartConc(w, DataOf(w)) \/ Steps(w)
    \/ \E r \in Readers : ReadStart(r) \/ Reads(r)
SpecConc == InitConc /\ [][NextConc]_vars

\* WriteFile A, then WriteFile B, each alone, from any files; OS calls may
\* fail; a ReadFile alone, before or after either
InitAny == NoCall /\ AnyFiles
NextAny ==
    \/ \E w \in {1, 2} :
          (\E d \in Payloads : StartAlone(w, d)) \/ Steps(w) \/ Fails(w)
    \/ \E r \in Readers : ReadStartAlone(r) \/ Reads(r)
SpecAny == InitAny /\ [][NextAny]_vars

\* one writer, one call after another, and a concurrent ReadFile
InitRead == NoCall /\ Published(OldData)
NextRead ==
    \/ \E w \in 1 .. MaxCalls : StartSeq(w, DataOf(w)) \/ Steps(w)
    \/ \E r \in Readers : ReadStart(r) \/ Reads(r)
SpecRead == InitRead /\ [][NextRead]_vars

\* everything: concurrent calls, failing OS calls, crashes
Init == NoCall /\ (Fresh \/ Published(OldData))
Next == \E w \in Writers : StartConc(w, DataOf(w)) \/ Steps(w) \/ Fails(w) \/ Crash(w)
Spec == Init /\ [][Next]_vars

\* a ReadFile whose read fails with an error that is not NotExist
ReadsFail(r) == ReadNameFail(r) \/ ReadAltFail(r)

\* one writer, one call after another, and a concurrent ReadFile whose
\* reads may fail
InitReadErr == NoCall /\ Published(OldData)
NextReadErr ==
    \/ \E w \in 1 .. MaxCalls : StartSeq(w, DataOf(w)) \/ Steps(w)
    \/ \E r \in Readers : ReadStart(r) \/ Reads(r) \/ ReadsFail(r)
SpecReadErr == InitReadErr /\ [][NextReadErr]_vars

\* a RemoveFile that starts when no WriteFile is running
RemoveStartAlone(x) ==
    /\ \A v \in Calls : ~Active(v)
    /\ RemoveStart(x)

\* a WriteFile that starts when no RemoveFile and no WriteFile is running
StartBetween(w, d) ==
    /\ \A x \in Removers : ~Removing(x)
    /\ StartSeq(w, d)

\* the OS calls of a RemoveFile that succeed, or report NotExist
Removes(x) == RemoveName(x) \/ RemoveAlt(x)

\* the OS calls of a RemoveFile that fail
RemovesFail(x) == RemoveNameFail(x) \/ RemoveAltFail(x)

\* RemoveFile calls one after another, from any files, a WriteFile alone
\* before, between or after them; every file is removable
InitRm == NoCall /\ AnyFiles
NextRm ==
    \/ \E x \in Removers : RemoveStartAlone(x) \/ Removes(x)
    \/ (\E d \in Payloads : StartBetween(1, d)) \/ Steps(1)
SpecRm == InitRm /\ [][NextRm]_vars

\* RemoveFile calls one after another, from any files; os.Remove may fail
InitRmErr == NoCall /\ AnyFiles
NextRmErr ==
    \E x \in Removers : RemoveStart(x) \/ Removes(x) \/ RemovesFail(x)
SpecRmErr == InitRmErr /\ [][NextRmErr]_vars

\* one RemoveFile and one WriteFile, concurrently, from any files
InitRmConc == NoCall /\ AnyFiles
NextRmConc ==
    \/ StartConc(1, DataOf(1)) \/ Steps(1)
    \/ RemoveStart(1) \/ Removes(1)
SpecRmConc == InitRmConc /\ [][NextRmConc]_vars

\* =============================================================== claims
\* the call that started last
Latest(w) == w \in Started /\ \A v \in Started : v <= w
\* some name holds one of these contents
SomeNameHolds(S) == \E n \in {name, alt} : Exists(n) /\ Content(n) \in S

\* C1: from a state where name and name.1 hold the same content V_old, a
\* WriteFile(name, V_new) that runs alone has, after each of its OS calls,
\* at least one of name / name.1 existing and holding V_old or V_new.
C1_OldOrNewReadable ==
    \A w \in Calls :
        (Active(w) /\ wpre[w].name # Absent /\ wpre[w].name = wpre[w].alt)
            => SomeNameHolds({wpre[w].ndata, wdata[w]})

\* C1 witness: between the third unlink and the third link, name is
\* absent and name.1 alone holds the new content, which is not the old
C1_Witness ==
    \E w \in Calls :
        /\ wpc[w] = "Link" /\ wk[w] = 3
        /\ ~Exists(name) /\ Exists(alt)
        /\ Content(alt) = wdata[w] /\ wdata[w] # wpre[w].ndata

\* the contents that were passed to some WriteFile
Written == {wdata[w] : w \in Started}

\* C2: one writer, calls one after another, any of which may crash after
\* any OS call: in every state after the first successful WriteFile, at
\* least one of name / name.1 exists and holds a content that was passed
\* to some WriteFile.
C2_SurvivesCrashes ==
    ReturnedNil # {} => SomeNameHolds(Written)

\* C3: concurrent WriteFile calls, no crash, from a published file: in
\* every state at least one of name / name.1 exists and holds a complete
\* content.
C3_ConcurrentReadable ==
    SomeNameHolds(Written \cup {OldData})

\* C4: a WriteFile(name, d) that ran alone, from any state of name and
\* name.1, and returned nil leaves both names existing and holding d, and
\* a ReadFile that follows returns d.
C4_RoundTrip ==
    \A w \in Calls :
        (Latest(w) /\ wpc[w] = "returned" /\ werr[w] = "nil") =>
            /\ Exists(name) /\ Content(name) = wdata[w]
            /\ Exists(alt) /\ Content(alt) = wdata[w]
            /\ \A r \in Readers :
                  (rpc[r] = "returned" /\ w \in rafter[r]) =>
                      rres[r].err = "nil" /\ rres[r].data = wdata[w]

\* C4 witness: WriteFile A, then WriteFile B with another content, both
\* returned nil, and a ReadFile after B has returned
C4_Witness ==
    /\ wpc[1] = "returned" /\ werr[1] = "nil"
    /\ wpc[2] = "returned" /\ werr[2] = "nil"
    /\ wdata[1] # wdata[2]
    /\ wpre[1].name # wpre[1].alt
    /\ \E r \in Readers : rpc[r] = "returned" /\ 2 \in rafter[r]

\* C5: a ReadFile that starts after a WriteFile W has returned nil never
\* returns an earlier content: not the content the names held at the
\* start, and not the content of a call that had returned before W
\* started.  What it returns is the complete data of W or of a call that
\* ran concurrently with W or after it.
C5_NoEarlierContent ==
    \A r \in Readers :
        (rpc[r] = "returned" /\ rres[r].err = "nil") =>
            \A W \in rafter[r] :
                /\ rres[r].file \in Calls \ wbefore[W]
                /\ rres[r].data = wdata[rres[r].file]

\* C5 witness: the ReadFile started after two calls had returned nil, one
\* of which had returned before the other started, and returns data
C5_Witness ==
    \E r \in Readers :
        /\ rpc[r] = "returned" /\ rres[r].err = "nil"
        /\ \E W \in rafter[r] : wbefore[W] # {} /\ rres[r].file = W

AllReturned == \A w \in Writers : wpc[w] = "returned"
BothHold(d) ==
    /\ Exists(name) /\ Content(name) = d
    /\ Exists(alt) /\ Content(alt) = d

C7_NeverNotExist ==
    \A r \in Readers :
        rpc[r] = "returned" =>
            /\ rres[r].err = "nil"
            /\ rres[r].data \in Written \cup {OldData}

\* C7 as amended: it returns NotExist only when at least three WriteFile
\* calls ran during it; with at most two, it returns the old content or
\* the data of one of the writes.
C7_NotExistNeedsThreeCalls ==
    \A r \in Readers :
        rpc[r] = "returned" =>
            \/ /\ rres[r].err = "nil"
               /\ rres[r].data \in Written \cup {OldData}
            \/ /\ IsNotExist(rres[r].err)
               /\ Cardinality(rover[r]) >= 3

\* C7 witness: the ReadFile found both names absent in two rounds, during
\* two WriteFile calls, and returns data in the third round
C7_Witness ==
    \E r \in Readers :
        /\ rpc[r] = "returned" /\ rres[r].err = "nil"
        /\ ri[r] = 2 /\ Cardinality(rover[r]) = 2

\* a file that name or name.1 refers to
Linked(d) == {d[n] : n \in {name, alt}} \ {Absent}

\* C8: in every interleaving, with failing OS calls and crashes, every
\* existing name / name.1 refers to a file that was written in full and
\* synced, holds the complete data of the one call that created it (or
\* the content it had at the start), and is open for writing in no call;
\* and no step changes the content of a file that name or name.1 refers to.
C8_OnlyCompleteFiles ==
    /\ [](\A n \in {name, alt} :
            Exists(n) =>
                /\ file[dir[n]].synced
                /\ dir[n] \in Calls => Content(n) = wdata[dir[n]]
                /\ dir[n] \in OldFiles => Content(n) = OldData
                /\ \A w \in Calls : wf[w] # dir[n])
    /\ [][\A i \in Linked(dir) \cap Linked(dir') : file'[i] = file[i]]_vars

\* C8 witness: a call's temporary file holds part of its data after a
\* failed write, while name and name.1 refer to the file of another call
C8_Witness ==
    \E w \in Calls, v \in Calls :
        /\ w # v
        /\ wpc[w] = "defer" /\ wfail[w] = "Write"
        /\ Exists(tmp(w)) /\ Content(tmp(w)) # wdata[w]
        /\ dir[name] = v /\ dir[alt] = v

WriteStage == {"Create", "Chmod", "Write", "Sync"}

\* C9: if os.Create, Chmod, Write or Sync of the temporary file fails,
\* WriteFilePerm returns that error and name and name.1 are, each, present
\* or absent and of the same content as before the call.
C9_FailedWriteTouchesNoLink ==
    \A w \in Calls :
        (Latest(w) /\ wfail[w] \in WriteStage) =>
            /\ wpc[w] \in {"defer", "returned"}
            /\ werr[w] # "nil"
            /\ dir[name] = wpre[w].name /\ Content(name) = wpre[w].ndata
            /\ dir[alt] = wpre[w].alt /\ Content(alt) = wpre[w].adata

\* C9 witness: os.Create failed with NotExist, the call has returned
\* it, and name.1 alone exists as before
C9_Witness ==
    \E w \in Calls :
        /\ wpc[w] = "returned" /\ wfail[w] = "Create" /\ IsNotExist(werr[w])
        /\ ~Exists(name) /\ Exists(alt) /\ dir[alt] = wpre[w].alt

Fatal(e) == e # "nil" /\ ~IsNotExist(e)
XReturned == {x \in Removers : xpc[x] = "returned"}
\* the RemoveFile calls whose os.Remove(name) failed with a fatal error
NameFailed == {x \in XReturned : Fatal(xlog[x][1][2])}

\* C11 as claimed: RemoveFile unlinks name and then name.1, NotExist
\* tolerated for each; when the unlink of name fails with another error,
\* RemoveFile returns that error and has still called os.Remove(name.1),
\* so that a removable name.1 is gone.
C11_AltStillAttempted ==
    \A x \in XReturned :
        /\ xlog[x][1][1] = name
        /\ x \in NameFailed =>
              /\ xerr[x] = xlog[x][1][2]
              /\ Len(xlog[x]) = 2
              /\ xlog[x][2][1] = alt
              /\ ~Fatal(xlog[x][2][2]) => ~Exists(alt)

\* C11 as amended: RemoveFile unlinks name and then name.1, NotExist
\* tolerated for each; when the unlink of name fails with another error,
\* RemoveFile returns that error at once: os.Remove(name.1) is not called,
\* and the step that returns changes no name and no file.
C11_ReturnsAtFirstError ==
    /\ [](\A x \in XReturned :
            /\ xlog[x][1][1] = name
            /\ x \in NameFailed =>
                  /\ xerr[x] = xlog[x][1][2]
                  /\ Len(xlog[x]) = 1
            /\ x \notin NameFailed =>
                  /\ Len(xlog[x]) = 2
                  /\ xlog[x][2][1] = alt
                  /\ ~Exists(name)
                  /\ xerr[x] = remove(xlog[x][2][2])
                  /\ ~Fatal(xlog[x][2][2]) => ~Exists(alt))
    /\ [][\A x \in Removers :
            (xpc[x] = "name" /\ xpc'[x] = "returned") =>
                dir' = dir /\ file' = file]_vars

\* C11 witness: os.Remove(name) failed, RemoveFile has returned the error
\* and name.1 still exists
C11_Witness ==
    \E x \in NameFailed :
        /\ xerr[x] = "EISDIR" /\ Len(xlog[x]) = 1
        /\ Exists(name) /\ Exists(alt)

\* C12: a RemoveFile that runs alone, whatever name and name.1 are
\* (each a removable file or absent), returns nil, and when it returns
\* both names are absent; so a second RemoveFile right after the first
\* returns nil as well.
C12_RemoveSucceeds ==
    /\ [](\A x \in XReturned : xerr[x] = "nil")
    /\ [][\A x \in Removers :
            (xpc[x] # "returned" /\ xpc'[x] = "returned") =>
                /\ xerr'[x] = "nil"
                /\ dir'[name] = Absent /\ dir'[alt] = Absent]_vars

\* C12 witness: the first RemoveFile unlinked both names, the second one,
\* right after it, found both absent, and both have returned nil
C12_Witness ==
    /\ wpc[1] = "idle"
    /\ xpc[1] = "returned" /\ xerr[1] = "nil"
    /\ xlog[1] = << <<name, "nil">>, <<alt, "nil">> >>
    /\ xpc[2] = "returned" /\ xerr[2] = "nil"
    /\ xlog[2] = << <<name, "ENOENT">>, <<alt, "ENOENT">> >>

\* C13: a ReadFile during which no name changes returns, when name
\* exists, the content of name and has not read name.1; when name is
\* absent and name.1 exists, the content of name.1; and when both are
\* absent, a NotExist error.
C13_ReadsNameThenAlt ==
    [][\A r \in Readers :
        (rpc[r] # "returned" /\ rpc'[r] = "returned") =>
            IF Exists(name)
            THEN /\ rres'[r].err = "nil"
                 /\ rres'[r].data = Content(name)
                 /\ rlog'[r] = << <<name, "nil">> >>
            ELSE IF Exists(alt)
            THEN /\ rres'[r].err = "nil"
                 /\ rres'[r].data = Content(alt)
            ELSE IsNotExist(rres'[r].err)]_vars

\* C13 witness: name is absent, name.1 holds a content, and the ReadFile
\* has returned it after it found name absent
C13_Witness ==
    \E r \in Readers :
        /\ rpc[r] = "returned" /\ rres[r].err = "nil"
        /\ \A w \in Calls : wpc[w] = "idle"
        /\ ~Exists(name) /\ Exists(alt)
        /\ rres[r].data = Content(alt) /\ Content(alt) # <<>>
        /\ rlog[r] = << <<name, "ENOENT">>, <<alt, "nil">> >>

\* the errors of the reads a ReadFile made before its latest read
Earlier(r) == {rlog[r][i][2] : i \in 1 .. Len(rlog[r]) - 1}
\* the latest read of a ReadFile
LastRead(r) == rlog[r][Len(rlog[r])]

C15_FatalReadReturns ==
    /\ [](\A r \in Readers : \A i \in 1 .. Len(rlog[r]) :
            Fatal(rlog[r][i][2]) =>
                /\ i = Len(rlog[r])
                /\ rpc[r] = "returned"
                /\ rres[r].err = rlog[r][i][2])
    /\ [][\A r \in Readers :
            rpc[r] = "returned" => rpc'[r] = "returned" /\ rlog'[r] = rlog[r]]_vars

\* C15 witness: the read of name failed in the second round, and ReadFile
\* has returned the error after three reads
C15_Witness ==
    \E r \in Readers :
        /\ rpc[r] = "returned" /\ rres[r].err = "EIO"
        /\ rlog[r] = << <<name, "ENOENT">>, <<alt, "ENOENT">>, <<name, "EIO">> >>

\* a step in which w's os.Remove(newname) of a link call returns nil or
\* NotExist
LinkUnlinks(w) == wpc[w] = "Remove" /\ wpc'[w] = "Link"
\* a step in which w's link call returns nil
LinkReturnsNil(w) == wpc[w] = "Link" /\ wpc'[w] # "Link" /\ wfail'[w] = ""

\* C16 as claimed: when a link(oldname, newname) that runs alone returns
\* nil, oldname exists and newname refers to the same file as oldname.
C16_LinkMakesHardLink ==
    [][\A w \in Calls :
        LinkReturnsNil(w) =>
            /\ dir'[oldname(w)] # Absent
            /\ dir'[newname(w)] = dir'[oldname(w)]]_vars

\* C16 as amended: a link(oldname, newname) that runs alone unlinks
\* newname whatever it referred to; when it then returns nil, newname
\* refers to the file of oldname if oldname existed, and newname is absent
\* if oldname was absent.  oldname is as before.
C16_LinkOrUnlink ==
    [][\A w \in Calls :
        /\ LinkUnlinks(w) =>
              /\ dir'[newname(w)] = Absent
              /\ dir'[oldname(w)] = dir[oldname(w)]
        /\ LinkReturnsNil(w) =>
              /\ dir[newname(w)] = Absent
              /\ dir'[oldname(w)] = dir[oldname(w)]
              /\ dir'[newname(w)] = dir[oldname(w)]]_vars

\* C16 witness: name and name.1 referred to two files; the first link
\* call, link(name.1, name), has returned nil and name refers to the file
\* of name.1
C16_Witness ==
    \E w \in Calls :
        /\ wpc[w] = "Remove" /\ wk[w] = 2
        /\ wpre[w].name = -1 /\ wpre[w].alt = -2
        /\ dir[name] = -2 /\ dir[alt] = -2

\* a step of call w that is not the end of its process
StepOf(w) == wpc'[w] # wpc[w] /\ wpc'[w] # "crashed"
LinkStage == {"Remove", "Link"}

\* C17: when os.Remove(newname) fails with an error other than NotExist,
\* link returns it and os.Link is not called; NotExist and AlreadyExists
\* of os.Link are never returned, link returns nil and safelink goes on
\* with its next link call (link(alt, name), link(tmp, alt), link(alt,
\* name), in this order); any other error of os.Link is returned.  After
\* the first link call that returned an error no link call runs:
\* WriteFilePerm returns that error, and the only name it still unlinks
\* is its temporary file.
C17_LinkErrors ==
    /\ [](\A w \in Calls :
            /\ wpc[w] \in LinkStage =>
                  /\ wk[w] \in 1 .. 3 /\ werr[w] = "nil"
                  /\ oldname(w) = (IF wk[w] = 2 THEN tmp(w) ELSE alt)
                  /\ newname(w) = (IF wk[w] = 2 THEN alt ELSE name)
            /\ wfail[w] \in LinkStage =>
                  /\ wpc[w] \in {"defer", "returned", "crashed"}
                  /\ Fatal(werr[w]) /\ ~IsExist(werr[w]))
    /\ [][\A w \in Calls :
            /\ (wpc[w] = "Remove" /\ StepOf(w)) =>
                  IF wfail'[w] = "Remove"
                  THEN wpc'[w] = "defer" /\ dir' = dir
                  ELSE wpc'[w] = "Link" /\ wk'[w] = wk[w]
            /\ (wpc[w] = "Link" /\ StepOf(w)) =>
                  IF wfail'[w] = "Link"
                  THEN wpc'[w] = "defer" /\ dir' = dir
                  ELSE /\ werr'[w] = "nil"
                       /\ wk[w] < 3 => wpc'[w] = "Remove" /\ wk'[w] = wk[w] + 1
                       /\ wk[w] = 3 => wpc'[w] = "defer"
            /\ (wpc[w] = "defer" /\ StepOf(w)) =>
                  /\ wpc'[w] = "returned" /\ werr'[w] = werr[w]
                  /\ dir'[name] = dir[name] /\ dir'[alt] = dir[alt]
            /\ wpc[w] = "returned" => wpc'[w] = "returned" /\ werr'[w] = werr[w]]_vars

\* C17 witness: the os.Link(tmp, name.1) of one call found name.1 linked
\* by another call, and the call went on to its third link call; the
\* other call has returned the error of the os.Remove of its third link
\* call
C17_Witness ==
    \E w \in Calls, v \in Calls :
        /\ wpc[w] = "Remove" /\ wk[w] = 3 /\ winst[w] = v /\ v # w
        /\ wpc[v] = "returned" /\ wfail[v] = "Remove" /\ werr[v] = "EIO"
        /\ dir[alt] = v /\ ~Exists(name)

\* C18: once all of the concurrent WriteFile calls have returned, name and
\* name.1 both exist and refer to one file, the file of one of the calls,
\* which holds the data of that call.
C18_BothNamesOneFile ==
    AllReturned =>
        /\ Exists(name) /\ Exists(alt)
        /\ dir[name] = dir[alt]
        /\ dir[name] \in Writers
        /\ Content(name) = wdata[dir[name]]

\* C18 witness: two calls neither of which had returned when the other
\* started have both returned, and the names refer to the file of the call
\* that started first
C18_Witness ==
    /\ AllReturned
    /\ \E w \in Writers, v \in Writers :
          /\ w < v /\ w \notin wbefore[v]
          /\ dir[name] = w /\ dir[alt] = w

\* C19 as claimed: a WriteFile call that has returned nil had name.1
\* referring to its own file when its os.Link(tmp, name.1) returned.
C19_OwnDataInstalled ==
    \A w \in ReturnedNil : winst[w] = w

\* C19 as amended: when the os.Link(tmp, name.1) of a call returns, name.1
\* refers to a fully written and synced file holding the data of the call
\* that created it; for a call that has returned nil, that file is its own
\* or, when os.Link reported AlreadyExists, the file of a call that had
\* not returned before this call started.
C19_SomeDataInstalled ==
    /\ [](\A w \in ReturnedNil : winst[w] \in Calls \ wbefore[w])
    /\ [][\A w \in Calls :
            (wpc[w] = "Link" /\ wk[w] = 2 /\ wk'[w] = 3) =>
                /\ dir'[alt] \in Calls
                /\ file'[dir'[alt]].synced
                /\ file'[dir'[alt]].data = wdata[dir'[alt]]
                /\ winst'[w] = dir'[alt]]_vars

\* C19 witness: two calls have returned nil, and the os.Link(tmp, name.1)
\* of one of them found name.1 linked to the file of the other
C19_Witness ==
    \E w \in ReturnedNil, v \in ReturnedNil :
        w # v /\ winst[w] = v /\ winst[v] = v

\* the RemoveFile and the WriteFile have both returned nil
XWReturnedNil ==
    /\ xpc[1] = "returned" /\ xerr[1] = "nil"
    /\ wpc[1] = "returned" /\ werr[1] = "nil"

\* C20 as claimed: when a RemoveFile and a WriteFile that ran concurrently
\* have both returned nil, name and name.1 are both absent, or both exist
\* and hold the written data.
C20_AsSomeOrder ==
    XWReturnedNil => (~Exists(name) /\ ~Exists(alt)) \/ BothHold(wdata[1])

\* C20 as amended: when a RemoveFile and a WriteFile that ran concurrently
\* have both returned nil, name and name.1 are both absent, or both exist
\* and hold the written data, or name alone exists and holds the written
\* data; name.1 never exists alone, and neither name refers to a file
\* other than the one the WriteFile has written.
C20_NeverAltAlone ==
    XWReturnedNil =>
        /\ Exists(alt) => BothHold(wdata[1])
        /\ \A n \in {name, alt} :
              Exists(n) => dir[n] = 1 /\ Content(n) = wdata[1]

\* C20 witness: both have returned nil; RemoveFile found name absent and
\* unlinked name.1 after the last link call of WriteFile: name alone exists
\* and holds the written data
C20_Witness ==
    /\ XWReturnedNil
    /\ xlog[1] = << <<name, "ENOENT">>, <<alt, "nil">> >>
    /\ Exists(name) /\ ~Exists(alt)
    /\ dir[name] = 1 /\ Content(name) = wdata[1]

====
